---------------------------- MODULE Spec2Model ----------------------------
(***************************************************************************)
(* Model of src/src/model/siphash.py: the SipHash class (an ARX stream     *)
(* cipher engine over a 16-word state), its constructor, next(),           *)
(* _doubleround(), _quarterround(), _inc_counter(), _b2w() and _w2b().     *)
(*                                                                         *)
(* Python integers are unbounded, so a non-negative integer is modelled as *)
(* the set of the positions of its 1 bits (5 = {0, 2}); the operators      *)
(* below are Python's +, ^, &, <<, >> and % on that representation.  A     *)
(* Python list is a function over 0..len-1.                                *)
(***************************************************************************)
EXTENDS Integers, Sequences, FiniteSets, TLC

VARIABLES engines, log

vars == <<engines, log>>

---------------------------------------------------------------------------
(* Bounds of the model.                                                    *)

\* next() calls made on one engine.
MaxCalls == 2
\* Explicit round counts range over 0..MaxRounds (the default is separate).
MaxRounds == 3
\* _quarterround/_doubleround applications in the working-state model.
MaxSteps == 1

---------------------------------------------------------------------------
(* Python integer arithmetic on bit sets.                                  *)

\* The bit set of a small TLA+ natural.
Bits(k) == {i \in 0..30 : (k \div 2^i) % 2 = 1}

\* A hexadecimal literal, most significant digit first: 0x1f is Hex(<<1, 15>>).
Hex(ds) == UNION {{i + 4 * (Len(ds) - j) : i \in Bits(ds[j])} : j \in 1..Len(ds)}

\* a << k
Shl(a, k) == {i + k : i \in a}

\* a >> k
Shr(a, k) == {i - k : i \in {j \in a : j >= k}}

\* a & b
And(a, b) == a \cap b

\* a ^ b
Xor(a, b) == (a \ b) \cup (b \ a)

\* a + b: carry propagation until no carry is left.
RECURSIVE Add(_, _)
Add(a, b) == IF b = {} THEN a ELSE Add(Xor(a, b), Shl(And(a, b), 1))

\* a - b for a >= b: borrow propagation.
RECURSIVE Sub(_, _)
Sub(a, b) == IF b = {} THEN a ELSE Sub(Xor(a, b), Shl(b \ a, 1))

\* The highest 1 bit of a non-zero integer.
Top(a) == CHOOSE i \in a : \A j \in a : j <= i

\* a < b
Less(a, b) == a # b /\ Top(Xor(a, b)) \in b

\* a % m for m > 0: long division.
RECURSIVE Mod(_, _)
Mod(a, m) ==
    IF Less(a, m) THEN a
    ELSE LET k == Top(a) - Top(m)
             t == IF Less(a, Shl(m, k)) THEN Shl(m, k - 1) ELSE Shl(m, k)
         IN Mod(Sub(a, t), m)

\* A Python list from a TLA+ tuple, and its len().
List(s) == [i \in 0..(Len(s) - 1) |-> s[i + 1]]
len(l) == Cardinality(DOMAIN l)

\* [v] * n
Repeat(v, n) == [i \in 0..(n - 1) |-> v]

\* l[a:b] for 0 <= a <= b <= len(l)
Slice(l, a, b) == [i \in 0..(b - a - 1) |-> l[a + i]]

---------------------------------------------------------------------------
(* Constants of the source.                                                *)

x000000ff == Hex(<<15, 15>>)
x0000ff00 == Hex(<<15, 15, 0, 0>>)
x00ff0000 == Hex(<<15, 15, 0, 0, 0, 0>>)
xff000000 == Hex(<<15, 15, 0, 0, 0, 0, 0, 0>>)
xffffffff == Hex(<<15, 15, 15, 15, 15, 15, 15, 15>>)

TAU ==
    List(<<Hex(<<6, 1, 7, 0, 7, 8, 6, 5>>), Hex(<<3, 1, 2, 0, 6, 4, 6, 14>>),
           Hex(<<7, 9, 6, 2, 2, 13, 3, 6>>), Hex(<<6, 11, 2, 0, 6, 5, 7, 4>>)>>)

SIGMA ==
    List(<<Hex(<<6, 1, 7, 0, 7, 8, 6, 5>>), Hex(<<3, 3, 2, 0, 6, 4, 6, 14>>),
           Hex(<<7, 9, 6, 2, 2, 13, 3, 2>>), Hex(<<6, 11, 2, 0, 6, 5, 7, 4>>)>>)

\* rounds = 8 in the constructor's signature.
DefaultRounds == 8

---------------------------------------------------------------------------
(* The methods of class SipHash.  A method takes the object (self, a       *)
(* record of its attributes) and returns the object it leaves behind.      *)

\* _b2w with the first byte as the most significant.
_b2w_big_endian(bytes) ==
    And(Add(Add(Add(bytes[3], Shl(bytes[2], 8)), Shl(bytes[1], 16)),
            Shl(bytes[0], 24)),
        xffffffff)

\* _b2w(bytes)
_b2w(bytes) ==
    And(Add(Add(Add(bytes[0], Shl(bytes[1], 8)), Shl(bytes[2], 16)),
            Shl(bytes[3], 24)),
        xffffffff)

\* _w2b with the most significant byte first.
_w2b_big_endian(word) ==
    List(<<Shr(And(word, xff000000), 24), Shr(And(word, x00ff0000), 16),
           Shr(And(word, x0000ff00), 8), And(word, x000000ff)>>)

\* _w2b(word)
_w2b(word) ==
    List(<<And(word, x000000ff), Shr(And(word, x0000ff00), 8),
           Shr(And(word, x00ff0000), 16), Shr(And(word, xff000000), 24)>>)

\* The four ARX stages of _quarterround, each on the words <<a, b, c, d>>
\* the stage before it left; the names are the source's.
\*   a0 = (a + b) & 0xffffffff; d0 = d ^ a0; d1 = rotation of d0 by 16
QRStage1(v) ==
    LET a0 == And(Add(v[1], v[2]), xffffffff)
        d0 == Xor(v[4], a0)
        d1 == And(Add(Shl(d0, 16), Shr(d0, 16)), xffffffff)
    IN <<a0, v[2], v[3], d1>>

\*   c0 = (c + d1) & 0xffffffff; b0 = b ^ c0; b1 = rotation of b0 by 12
QRStage2(v) ==
    LET c0 == And(Add(v[3], v[4]), xffffffff)
        b0 == Xor(v[2], c0)
        b1 == And(Add(Shl(b0, 12), Shr(b0, 20)), xffffffff)
    IN <<v[1], b1, c0, v[4]>>

\*   a1 = (a0 + b1) & 0xffffffff; d2 = d1 ^ a1; d3 = rotation of d2 by 8
QRStage3(v) ==
    LET a1 == And(Add(v[1], v[2]), xffffffff)
        d2 == Xor(v[4], a1)
        d3 == And(Add(Shl(d2, 8), Shr(d2, 24)), xffffffff)
    IN <<a1, v[2], v[3], d3>>

\* The fourth stage with b3 = ((b2 << 8) + (b2 >> 24)) & 0xffffffff.
QRStage4_rotate8(v) ==
    LET c1 == And(Add(v[3], v[4]), xffffffff)
        b2 == Xor(v[2], c1)
        b3 == And(Add(Shl(b2, 8), Shr(b2, 24)), xffffffff)
    IN <<v[1], b3, c1, v[4]>>

\*   c1 = (c0 + d3) & 0xffffffff; b2 = b1 ^ c1; b3 = rotation of b2 by 7
QRStage4(v) ==
    LET c1 == And(Add(v[3], v[4]), xffffffff)
        b2 == Xor(v[2], c1)
        b3 == And(Add(Shl(b2, 7), Shr(b2, 25)), xffffffff)
    IN <<v[1], b3, c1, v[4]>>

\* self.x[ai], self.x[bi] = a_prim, b_prim; self.x[ci], self.x[di] = c_prim, d_prim
QRStore(self, ai, bi, ci, di, prim) ==
    [self EXCEPT !.x[ai] = prim[1], !.x[bi] = prim[2],
                 !.x[ci] = prim[3], !.x[di] = prim[4]]

\* _quarterround(ai, bi, ci, di)
_quarterround(self, ai, bi, ci, di) ==
    QRStore(self, ai, bi, ci, di,
            QRStage4(QRStage3(QRStage2(QRStage1(
                <<self.x[ai], self.x[bi], self.x[ci], self.x[di]>>)))))

\* The calls of _doubleround with the seventh on (2, 7, 8, 12).
QRCalls_index12 ==
    <<<<0, 4, 8, 12>>, <<1, 5, 9, 13>>, <<2, 6, 10, 14>>, <<3, 7, 11, 15>>,
      <<0, 5, 10, 15>>, <<1, 6, 11, 12>>, <<2, 7, 8, 12>>, <<3, 4, 9, 14>>>>

\* The index tuples of the eight _quarterround calls of _doubleround, in
\* call order.
QRCalls ==
    <<<<0, 4, 8, 12>>, <<1, 5, 9, 13>>, <<2, 6, 10, 14>>, <<3, 7, 11, 15>>,
      <<0, 5, 10, 15>>, <<1, 6, 11, 12>>, <<2, 7, 8, 13>>, <<3, 4, 9, 14>>>>

\* The k-th _quarterround call of _doubleround.
QRCall(self, k) ==
    _quarterround(self, QRCalls[k][1], QRCalls[k][2], QRCalls[k][3], QRCalls[k][4])

\* _doubleround()
_doubleround(self) ==
    QRCall(QRCall(QRCall(QRCall(QRCall(QRCall(QRCall(QRCall(
        self, 1), 2), 3), 4), 5), 6), 7), 8)

\* _inc_counter(): "+= 1 & 0xffffffff" adds (1 & 0xffffffff).
_inc_counter(self) ==
    LET one == And(Bits(1), xffffffff)
        c0 == Add(self.block_counter[0], one)
        c1 == IF Mod(c0, xffffffff) = {}
              THEN Add(self.block_counter[1], one)
              ELSE self.block_counter[1]
    IN [self EXCEPT !.block_counter = [i \in 0..1 |-> IF i = 0 THEN c0 ELSE c1]]

\* for i in range(int(self.rounds / 2)): self._doubleround()
RECURSIVE RoundLoop(_, _)
RoundLoop(self, n) ==
    IF n <= 0 THEN self ELSE RoundLoop(_doubleround(self), n - 1)

\* bytestate: the loop "for i in self.state: bytestate += self._w2b(i)",
\* after n words.
RECURSIVE ByteState(_, _)
ByteState(state, n) ==
    IF n = 0 THEN <<>>
    ELSE LET w == _w2b(state[n - 1])
         IN ByteState(state, n - 1) \o <<w[0], w[1], w[2], w[3]>>

\* data_out with | in place of ^.
DataOut_or(data_in, bytestate) == [i \in 0..63 |-> data_in[i] \cup bytestate[i]]

\* data_out = [data_in[i] ^ bytestate[i] for i in range(64)]
DataOut(data_in, bytestate) == [i \in 0..63 |-> Xor(data_in[i], bytestate[i])]

\* self.x = self.state[:]
CopyState(self) == [self EXCEPT !.x = self.state]

\* self.state = [((self.state[i] + self.x[i]) & 0xffffffff) for i in range(16)]
AddState(self) ==
    [self EXCEPT !.state = [i \in 0..15 |->
                              And(Add(self.state[i], self.x[i]), xffffffff)]]

\* The rest of next(): bytestate, data_out (data_in[i] raises IndexError on
\* a list shorter than 64), the counter update and the return.
Emit(self, data_in) ==
    IF len(data_in) < 64
    THEN [self |-> self, ret |-> List(<<>>), exc |-> "IndexError"]
    ELSE [self |-> _inc_counter(self),
          ret |-> DataOut(data_in, List(ByteState(self.state, 16))),
          exc |-> "none"]

\* next(data_in): the object left behind, the value returned (an empty
\* list when an exception is raised) and the exception raised.
next(self, data_in) ==
    Emit(AddState(RoundLoop(CopyState(self), self.rounds \div 2)), data_in)

\* set_key_iv(key, iv): called by the constructor and not defined in the
\* source file; modelled from the specification's construction rules
\* (validation of the key and IV lengths, constants selected by key length,
\* little-endian packing with _b2w, zeroed block counter, layout constants /
\* key words / counter words / IV words; a 16-byte key fills the eight key
\* slots twice).
set_key_iv(self, key, iv) ==
    IF len(key) \notin {16, 32}
    THEN [self |-> self, exc |-> "InvalidKeyLength"]
    ELSE IF len(iv) # 8
    THEN [self |-> self, exc |-> "InvalidIVLength"]
    ELSE LET constants == IF len(key) = 16 THEN TAU ELSE SIGMA
             keyword(j) == _b2w(Slice(key, 4 * j, 4 * j + 4))
             block_counter == Repeat({}, 2)
             state == [i \in 0..15 |->
                 IF i < 4 THEN constants[i]
                 ELSE IF i < 8 THEN keyword(i - 4)
                 ELSE IF i < 12
                      THEN (IF len(key) = 16 THEN keyword(i - 8) ELSE keyword(i - 4))
                 ELSE IF i < 14 THEN block_counter[i - 12]
                 ELSE _b2w(Slice(iv, 4 * (i - 14), 4 * (i - 14) + 4))]
         IN [self |-> [state |-> state, x |-> self.x, rounds |-> self.rounds,
                       block_counter |-> block_counter],
             exc |-> "none"]

\* __init__(key, iv, rounds): the attributes are set and set_key_iv is
\* called; the round count is stored as given.
__init__(key, iv, rounds) ==
    set_key_iv([state |-> Repeat({}, 16), x |-> Repeat({}, 16), rounds |-> rounds],
               key, iv)

---------------------------------------------------------------------------
(* The state: engines[e] is the SipHash object e, log[e] what the caller   *)
(* did with it last (the call, its arguments, its result, the object       *)
(* before the call and the object as constructed).                         *)

Ids == {1, 2}

None == [state |-> List(<<>>), x |-> List(<<>>), rounds |-> 0,
         block_counter |-> List(<<>>)]

NoLog == [status |-> "none", op |-> "none", key |-> List(<<>>), iv |-> List(<<>>),
          rounds |-> 0, n |-> 0, data_in |-> List(<<>>), ret |-> List(<<>>),
          exc |-> "none", pre |-> None, init |-> None, args |-> <<>>]

\* Byte lists the callers pass.
Zeros(n) == Repeat({}, n)
Ones(n) == Repeat(Bits(255), n)
Mix(n) == [i \in 0..(n - 1) |-> Bits((i * 73 + 129) % 256)]

Keys == {Zeros(16), Mix(16), Zeros(32), Mix(32), Mix(15), Mix(17)}
IVs == {Zeros(8), Mix(8), Mix(7), Mix(9)}
RoundCounts == (0..MaxRounds) \cup {DefaultRounds}
Blocks == {Zeros(64), Ones(64), Mix(64), Mix(63), Mix(65)}

\* The caller's view after e = SipHash(key, iv, rounds) returned or raised r.
Constructed(e, key, iv, rounds, r) ==
    /\ engines' = [engines EXCEPT ![e] = IF r.exc = "none" THEN r.self ELSE None]
    /\ log' = [log EXCEPT ![e] =
          [NoLog EXCEPT !.status = IF r.exc = "none" THEN "ready" ELSE "failed",
                        !.op = "init", !.key = key, !.iv = iv, !.rounds = rounds,
                        !.exc = r.exc,
                        !.init = IF r.exc = "none" THEN r.self ELSE None]]

\* e = SipHash(key, iv, rounds)
Construct(e, key, iv, rounds) ==
    /\ log[e].status = "none"
    /\ Constructed(e, key, iv, rounds, __init__(key, iv, rounds))

\* The caller's view after e.next(data_in) returned or raised r.
Returned(e, data_in, r) ==
    /\ engines' = [engines EXCEPT ![e] = r.self]
    /\ log' = [log EXCEPT ![e].op = "next", ![e].n = @ + 1,
                          ![e].data_in = data_in, ![e].ret = r.ret,
                          ![e].exc = r.exc, ![e].pre = engines[e],
                          ![e].args = <<>>]

\* e.next(data_in)
ProcessBlock(e, data_in) ==
    /\ log[e].status = "ready"
    /\ log[e].n < MaxCalls
    /\ Returned(e, data_in, next(engines[e], data_in))

Init ==
    /\ engines = [e \in Ids |-> None]
    /\ log = [e \in Ids |-> NoLog]

\* One engine, every kind of argument.
Next ==
    \/ \E key \in Keys, iv \in IVs, rounds \in RoundCounts :
          Construct(1, key, iv, rounds)
    \/ \E data_in \in Blocks : ProcessBlock(1, data_in)

Spec == Init /\ [][Next]_vars

---------------------------------------------------------------------------
(* Two engines side by side: one encrypts, the other decrypts.  A block    *)
(* passed to one engine is a fixed block or the block the other engine     *)
(* returned last.                                                          *)

PairKeys == {Mix(16), Mix(32)}
PairIVs == {Mix(8)}
PairRounds == {2, DefaultRounds}
PairBlocks == {Zeros(64), Mix(64)}

Other(e) == CHOOSE f \in Ids : f # e

PairInputs(e) ==
    PairBlocks \cup {b \in {log[Other(e)].ret} : len(b) = 64}

NextPair ==
    \/ \E e \in Ids, key \in PairKeys, iv \in PairIVs, rounds \in PairRounds :
          Construct(e, key, iv, rounds)
    \/ \E e \in Ids : \E data_in \in PairInputs(e) : ProcessBlock(e, data_in)

SpecPair == Init /\ [][NextPair]_vars

---------------------------------------------------------------------------
(* The block counter near the 32-bit boundary.  The engine starts as       *)
(* constructed, with block_counter at a value _inc_counter gives after     *)
(* that many calls from [0, 0] (the low word is the number of calls, the   *)
(* high word the number of multiples of 0xffffffff passed); next() reads   *)
(* and writes block_counter only through _inc_counter.                     *)

xfffffffd == Hex(<<15, 15, 15, 15, 15, 15, 15, 13>>)
xfffffffe == Hex(<<15, 15, 15, 15, 15, 15, 15, 14>>)

CounterPresets ==
    {List(<<{}, {}>>), List(<<xfffffffd, {}>>), List(<<xfffffffe, {}>>),
     List(<<xffffffff, Bits(1)>>)}

CounterKeys == {Zeros(16), Mix(16), Zeros(32), Mix(32)}
CounterIVs == {Zeros(8), Mix(8)}
CounterRounds == {2, DefaultRounds}
CounterBlocks == {Zeros(64), Ones(64), Mix(64)}

Preset(obj, key, iv, rounds) ==
    [NoLog EXCEPT !.status = "ready", !.op = "init", !.key = key, !.iv = iv,
                  !.rounds = rounds, !.init = obj]

InitCounter ==
    \E key \in CounterKeys, iv \in CounterIVs, rounds \in CounterRounds,
       c \in CounterPresets :
        /\ engines = [e \in Ids |->
              IF e = 1
              THEN [__init__(key, iv, rounds).self EXCEPT !.block_counter = c]
              ELSE None]
        /\ log = [e \in Ids |->
              IF e = 1 THEN Preset(engines[1], key, iv, rounds) ELSE NoLog]

NextCounter == \E data_in \in CounterBlocks : ProcessBlock(1, data_in)

SpecCounter == InitCounter /\ [][NextCounter]_vars

---------------------------------------------------------------------------
(* _quarterround and _doubleround as functions of the working state: the   *)
(* engine starts with x drawn from a set of working states and the two     *)
(* methods are applied to it.                                              *)

x80000001 == Hex(<<8, 0, 0, 0, 0, 0, 0, 1>>)

QRWords == {{}, xffffffff, x80000001}

QRBase == __init__(Mix(32), Mix(8), DefaultRounds).self

WorkingStates ==
    {[QRBase.state EXCEPT ![0] = a, ![4] = b, ![8] = c, ![12] = d] :
        a \in QRWords, b \in QRWords, c \in QRWords, d \in QRWords}
    \cup {QRBase.state, Repeat({}, 16), Repeat(xffffffff, 16)}

\* Index tuples _quarterround is called with: those of _doubleround and
\* two others.
QRArgs == {QRCalls[k] : k \in 1..8} \cup {<<0, 1, 2, 3>>, <<15, 10, 5, 0>>}

InitQR ==
    \E x0 \in WorkingStates :
        /\ engines = [e \in Ids |->
              IF e = 1 THEN [QRBase EXCEPT !.x = x0] ELSE None]
        /\ log = [e \in Ids |->
              IF e = 1 THEN Preset(engines[1], Mix(32), Mix(8), DefaultRounds)
              ELSE NoLog]

\* The caller's view after a method that returns nothing.
Stepped(e, op, args, obj) ==
    /\ engines' = [engines EXCEPT ![e] = obj]
    /\ log' = [log EXCEPT ![e].op = op, ![e].n = @ + 1, ![e].args = args,
                          ![e].pre = engines[e]]

\* e._quarterround(ai, bi, ci, di)
QuarterRound(e, t) ==
    /\ log[e].n < MaxSteps
    /\ Stepped(e, "quarterround", t,
               _quarterround(engines[e], t[1], t[2], t[3], t[4]))

\* e._doubleround()
DoubleRound(e) ==
    /\ log[e].n < MaxSteps
    /\ Stepped(e, "doubleround", <<>>, _doubleround(engines[e]))

NextQR ==
    \/ \E t \in QRArgs : QuarterRound(1, t)
    \/ DoubleRound(1)

SpecQR == InitQR /\ [][NextQR]_vars

---------------------------------------------------------------------------
(* The reference the properties compare the code with: 32-bit words as     *)
(* residues mod 2^32, rotation as a permutation of bit positions, and the  *)
(* round network as the specification lays it out.                         *)

\* a mod 2^32
Low32(a) == {i \in a : i < 32}

\* (a + b) mod 2^32
Plus32(a, b) == Low32(Add(a, b))

\* The 32-bit word a rotated left by n bits.
Rotl32(a, n) == {(i + n) % 32 : i \in a}

\* Bitwise exclusive or.
BitXor(a, b) == {i \in a \cup b : ~(i \in a /\ i \in b)}

\* Byte k (0 the least significant) of a word.
RefByte(w, k) == {i - 8 * k : i \in {j \in w : 8 * k <= j /\ j < 8 * k + 8}}

\* The little-endian word of four bytes: b0 | b1<<8 | b2<<16 | b3<<24.
RefWord(b0, b1, b2, b3) ==
    b0 \cup {i + 8 : i \in b1} \cup {i + 16 : i \in b2} \cup {i + 24 : i \in b3}

\* a += b; d = rotl(d ^ a, 16); c += d; b = rotl(b ^ c, 12);
\* a += b; d = rotl(d ^ a, 8);  c += d; b = rotl(b ^ c, 7)
RefARX(a, b, c, d) ==
    LET a1 == Plus32(a, b)
        d1 == Rotl32(BitXor(d, a1), 16)
        c1 == Plus32(c, d1)
        b1 == Rotl32(BitXor(b, c1), 12)
        a2 == Plus32(a1, b1)
        d2 == Rotl32(BitXor(d1, a2), 8)
        c2 == Plus32(c1, d2)
        b2 == Rotl32(BitXor(b1, c2), 7)
    IN <<a2, b2, c2, d2>>

\* The reference quarter-round on the words of x at the indices t.
RefQuarter(x, t) ==
    LET r == RefARX(x[t[1]], x[t[2]], x[t[3]], x[t[4]])
    IN [i \in DOMAIN x |->
          IF i = t[1] THEN r[1] ELSE IF i = t[2] THEN r[2]
          ELSE IF i = t[3] THEN r[3] ELSE IF i = t[4] THEN r[4] ELSE x[i]]

\* The j-th column and the j-th diagonal of the 4x4 word matrix.
Column(j) == <<j, j + 4, j + 8, j + 12>>
Diagonal(j) ==
    <<j, 4 + ((j + 1) % 4), 8 + ((j + 2) % 4), 12 + ((j + 3) % 4)>>

\* The orderings of four quarter-rounds, and the one that counts up.
Orders == {p \in [1..4 -> 0..3] : \A i, j \in 1..4 : i # j => p[i] # p[j]}
Ascending == [i \in 1..4 |-> i - 1]

\* The four quarter-rounds of a pass, on the index tuples idx[0..3] taken
\* in the order p; k of them.
RECURSIVE RefPass(_, _, _, _)
RefPass(x, idx, p, k) ==
    IF k = 0 THEN x ELSE RefQuarter(RefPass(x, idx, p, k - 1), idx[p[k]])

RefColumns(x, p) == RefPass(x, [j \in 0..3 |-> Column(j)], p, 4)
RefDiagonals(x, p) == RefPass(x, [j \in 0..3 |-> Diagonal(j)], p, 4)

\* n double-rounds.
RECURSIVE RefRounds(_, _)
RefRounds(x, n) ==
    IF n = 0 THEN x
    ELSE RefDiagonals(RefColumns(RefRounds(x, n - 1), Ascending), Ascending)

ValidKey(key) == len(key) \in {16, 32}
ValidIV(iv) == len(iv) = 8
ValidRounds(rounds) == rounds >= 2 /\ rounds % 2 = 0

\* The counter read as high * 2^32 + low.
Val64(c) == Add(c[0], Shl(c[1], 32))

---------------------------------------------------------------------------
(* The properties.                                                         *)

\* C1: a next() call on a 64-byte input returns 64 bytes, output byte i
\* being input byte i XOR byte (i mod 4) of keystream word (i div 4), the
\* keystream words being (internal state before the call + working state)
\* mod 2^32 and the working state the internal state before the call after
\* rounds div 2 double-rounds.
NextXorsKeystream ==
    \A e \in Ids :
        (log[e].op = "next" /\ len(log[e].data_in) = 64) =>
            /\ log[e].exc = "none"
            /\ DOMAIN log[e].ret = 0..63
            /\ engines[e].x =
                  RefRounds(log[e].pre.state, log[e].pre.rounds \div 2)
            /\ \A i \in 0..63 :
                  log[e].ret[i] =
                      BitXor(log[e].data_in[i],
                             RefByte(Plus32(log[e].pre.state[i \div 4],
                                            engines[e].x[i \div 4]),
                                     i % 4))

\* C1 witness: the second block of an 8-round engine, a mixed input, the
\* output differing from the input.
NextXorsKeystreamWitness ==
    /\ log[1].op = "next"
    /\ log[1].n = 2
    /\ log[1].rounds = DefaultRounds
    /\ log[1].data_in = Mix(64)
    /\ log[1].exc = "none"
    /\ log[1].ret # log[1].data_in

\* C2: over the successful next() calls made on an engine the counter,
\* read as high * 2^32 + low, has advanced by their number mod 2^64; each
\* call adds 1 to the low word mod 2^32 and adds 1 to the high word exactly
\* when the low word was 2^32 - 1.
CounterAdvancesByOne ==
    \A e \in Ids :
        (log[e].op = "next" /\ log[e].exc = "none") =>
            /\ Val64(engines[e].block_counter) =
                  {i \in Add(Val64(log[e].init.block_counter), Bits(log[e].n)) :
                      i < 64}
            /\ engines[e].block_counter[0] =
                  Plus32(log[e].pre.block_counter[0], Bits(1))
            /\ engines[e].block_counter[1] =
                  IF log[e].pre.block_counter[0] = xffffffff
                  THEN Plus32(log[e].pre.block_counter[1], Bits(1))
                  ELSE log[e].pre.block_counter[1]

\* C3: construction succeeds exactly when the key has 16 or 32 bytes, the
\* IV 8 bytes and the round count is even and at least 2; otherwise it
\* fails with the error of an argument that is invalid.
ConstructionValidates ==
    \A e \in Ids :
        log[e].status # "none" =>
            /\ log[e].status = "ready" <=>
                  (ValidKey(log[e].key) /\ ValidIV(log[e].iv)
                      /\ ValidRounds(log[e].rounds))
            /\ log[e].status = "failed" =>
                  \/ log[e].exc = "InvalidKeyLength" /\ ~ValidKey(log[e].key)
                  \/ log[e].exc = "InvalidIVLength" /\ ~ValidIV(log[e].iv)
                  \/ log[e].exc = "InvalidRoundCount"
                        /\ ~ValidRounds(log[e].rounds)

\* C4: a next() call on an input that is not 64 bytes long fails with
\* InvalidBlockLength, returns nothing and leaves the engine as it was.
WrongLengthRejected ==
    \A e \in Ids :
        (log[e].op = "next" /\ len(log[e].data_in) # 64) =>
            /\ log[e].exc = "InvalidBlockLength"
            /\ len(log[e].ret) = 0
            /\ engines[e] = log[e].pre

DecryptInvertsEncrypt ==
    \A e \in Ids : \A f \in Ids \ {e} :
        (/\ log[e].status = "ready" /\ log[f].status = "ready"
         /\ log[e].key = log[f].key /\ log[e].iv = log[f].iv
         /\ log[e].rounds = log[f].rounds
         /\ log[e].op = "next" /\ log[f].op = "next"
         /\ log[e].n = log[f].n
         /\ log[f].data_in = log[e].ret) =>
            log[f].ret = log[e].data_in

\* C6 witness: the second block of each engine, the ciphertext differing
\* from the plaintext and passed to the other engine.
DecryptInvertsEncryptWitness ==
    /\ log[1].status = "ready" /\ log[2].status = "ready"
    /\ log[1].key = log[2].key /\ log[1].iv = log[2].iv
    /\ log[1].rounds = log[2].rounds
    /\ log[1].n = 2 /\ log[2].n = 2
    /\ log[1].data_in = Mix(64)
    /\ log[1].ret # log[1].data_in
    /\ log[2].data_in = log[1].ret
    /\ log[2].ret = Mix(64)

\* C7: after a successful next() call the internal state is the state at
\* construction except for words 12 and 13, which hold the block counter.
OnlyCounterSlotChanges ==
    \A e \in Ids :
        (log[e].op = "next" /\ log[e].exc = "none") =>
            \A i \in 0..15 :
                engines[e].state[i] =
                    IF i = 12 THEN engines[e].block_counter[0]
                    ELSE IF i = 13 THEN engines[e].block_counter[1]
                    ELSE log[e].init.state[i]

\* C8: _quarterround(ai, bi, ci, di) replaces the four words of the working
\* state at those indices by the reference ARX sequence on them (additions
\* mod 2^32, true 32-bit rotations by 16, 12, 8, 7) and leaves the other 12
\* words of the working state and the rest of the engine unchanged.
QuarterRoundIsARX ==
    \A e \in Ids :
        log[e].op = "quarterround" =>
            /\ engines[e].x = RefQuarter(log[e].pre.x, log[e].args)
            /\ \A i \in 0..15 :
                  i \notin {log[e].args[k] : k \in 1..4} =>
                      engines[e].x[i] = log[e].pre.x[i]
            /\ engines[e].state = log[e].pre.state
            /\ engines[e].block_counter = log[e].pre.block_counter
            /\ engines[e].rounds = log[e].pre.rounds

\* C8 witness: a quarter-round whose first addition carries out of 32 bits.
QuarterRoundIsARXWitness ==
    /\ log[1].op = "quarterround"
    /\ 32 \in Add(log[1].pre.x[log[1].args[1]], log[1].pre.x[log[1].args[2]])
    /\ engines[1].x # log[1].pre.x

\* C9: _doubleround() is the four column quarter-rounds (j, j+4, j+8, j+12)
\* followed by the four diagonal quarter-rounds (j, 4+(j+1)%4, 8+(j+2)%4,
\* 12+(j+3)%4), and the result is the same for every ordering of the four
\* within the column pass and every ordering of the four within the
\* diagonal pass.
DoubleRoundOrderFree ==
    \A e \in Ids :
        log[e].op = "doubleround" =>
            LET cols == RefColumns(log[e].pre.x, Ascending)
            IN /\ \A p \in Orders : RefColumns(log[e].pre.x, p) = cols
               /\ \A q \in Orders : RefDiagonals(cols, q) = engines[e].x

\* C9 witness: a double-round that changed a working state whose words
\* are not all alike.
DoubleRoundOrderFreeWitness ==
    /\ log[1].op = "doubleround"
    /\ engines[1].x # log[1].pre.x
    /\ log[1].pre.x[0] # log[1].pre.x[5]
    /\ Cardinality(Orders) = 24

\* C10: every word of the internal state, of the working state and of the
\* block counter is below 2^32, and every byte returned is below 256.
WordsBelow2to32 ==
    \A e \in Ids :
        log[e].status = "ready" =>
            /\ \A i \in 0..15 :
                  engines[e].state[i] \subseteq 0..31
                      /\ engines[e].x[i] \subseteq 0..31
            /\ \A i \in 0..1 : engines[e].block_counter[i] \subseteq 0..31
            /\ \A i \in DOMAIN log[e].ret : log[e].ret[i] \subseteq 0..7

=============================================================================
